---------------------------- MODULE Spec2Model ----------------------------
(***************************************************************************)
(* A model of sizegen (go/tools/sizegen/sizegen.go): the generator that    *)
(* synthesizes CachedSize methods for the struct types of a loaded Go      *)
(* program.                                                                 *)
(*                                                                         *)
(* The loaded program (packages, scopes, named types) is input data: it is *)
(* the fixed value Decl / Packages below.  The --gen list is drawn from    *)
(* GenInputs in Init.  The state is the sizegen struct (known, codegen),   *)
(* the position of main (pc), the locals of the two loops that range over  *)
(* a Go map, the process log, and the file system behind fileWriter.       *)
(***************************************************************************)
EXTENDS Integers, Sequences, FiniteSets, TLC

(***************************************************************************)
(* go/types type expressions, as records tagged by k.                      *)
(***************************************************************************)
Basic(b) == [k |-> "Basic", b |-> b]
Pointer(e) == [k |-> "Pointer", elem |-> e]
Slice(e) == [k |-> "Slice", elem |-> e]
Array(n, e) == [k |-> "Array", len |-> n, elem |-> e]
Map(key, e) == [k |-> "Map", key |-> key, elem |-> e]
Struct(fs) == [k |-> "Struct", fields |-> fs]
Interface(ms) == [k |-> "Interface", methods |-> ms]
Named(id) == [k |-> "Named", id |-> id]
Field(n, t) == [name |-> n, type |-> t]

\* A package path of "" stands for Obj().Pkg() == nil (a predeclared type).
NilPkg == ""

(***************************************************************************)
(* The loaded program.  Every named type is keyed by named.String(), the   *)
(* package path, a dot and the type name.  methods / ptrmethods are the    *)
(* methods declared with a value / pointer receiver.                       *)
(***************************************************************************)
TypeDecl(pkg, name, under, ms, pms) ==
    [pkg |-> pkg, name |-> name, underlying |-> under, methods |-> ms, ptrmethods |-> pms]

Decl ==
    [id \in {"m/a.A", "m/a.B", "m/a.E", "m/a.Holder", "m/a.Iface", "m/a.ImplA",
             "m/a.ImplB", "m/a.Leaf", "m/a.Names", "m/a.Nop", "m/a.Pair", "m/a.R", "m/a.S",
             "m/a.T",
             "m/a.W", "m/a.Z", "m/b.Ext", "x/c.F", "error"} |->
      CASE id = "m/a.A" ->
             TypeDecl("m/a", "A", Struct(<<Field("b", Pointer(Named("m/a.B"))),
                                           Field("n", Basic("int64"))>>), {}, {})
        [] id = "m/a.B" ->
             TypeDecl("m/a", "B", Struct(<<Field("a", Pointer(Named("m/a.A"))),
                                           Field("s", Basic("string"))>>), {}, {})
        [] id = "m/a.E" ->
             TypeDecl("m/a", "E", Struct(<<Field("err", Named("error"))>>), {}, {})
        [] id = "m/a.Holder" ->
             TypeDecl("m/a", "Holder", Struct(<<Field("v", Named("m/a.Iface")),
                                                Field("l", Named("m/a.Leaf")),
                                                Field("p", Named("m/a.Pair"))>>), {}, {})
        [] id = "m/a.Iface" ->
             TypeDecl("m/a", "Iface", Interface({"M"}), {}, {})
        [] id = "m/a.ImplA" ->
             TypeDecl("m/a", "ImplA",
                      Struct(<<Field("name", Basic("string")),
                               Field("opt", Struct(<<Field("q", Pointer(Basic("int32")))>>))>>),
                      {}, {"M"})
        [] id = "m/a.ImplB" ->
             TypeDecl("m/a", "ImplB", Struct(<<Field("x", Basic("int64"))>>), {"M"}, {})
        [] id = "m/a.Leaf" ->
             TypeDecl("m/a", "Leaf", Struct(<<Field("a", Basic("int32")),
                                              Field("b", Basic("int32"))>>), {}, {})
        [] id = "m/a.Names" ->
             TypeDecl("m/a", "Names", Slice(Basic("string")), {}, {})
        [] id = "m/a.Nop" ->
             TypeDecl("m/a", "Nop", Struct(<<>>), {"M"}, {})
        [] id = "m/a.Pair" ->
             TypeDecl("m/a", "Pair", Struct(<<Field("l", Named("m/a.Leaf")),
                                              Field("n", Basic("int64"))>>), {}, {})
        [] id = "m/a.R" ->
             TypeDecl("m/a", "R", Struct(<<Field("s", Pointer(Named("m/a.S")))>>), {}, {})
        [] id = "m/a.S" ->
             TypeDecl("m/a", "S", Struct(<<Field("t", Named("m/a.T"))>>), {}, {})
        [] id = "m/a.T" ->
             TypeDecl("m/a", "T", Slice(Named("m/a.T")), {}, {})
        [] id = "m/a.W" ->
             TypeDecl("m/a", "W",
                      Struct(<<Field("names", Named("m/a.Names")),
                               Field("m", Map(Basic("string"), Pointer(Named("m/a.Leaf")))),
                               Field("f", Pointer(Named("x/c.F"))),
                               Field("ext", Pointer(Named("m/b.Ext"))),
                               Field("raw", Slice(Basic("uint8")))>>), {}, {})
        [] id = "m/a.Z" ->
             TypeDecl("m/a", "Z", Struct(<<Field("pad", Array(0, Basic("string")))>>), {}, {})
        [] id = "m/b.Ext" ->
             TypeDecl("m/b", "Ext",
                      Struct(<<Field("data", Slice(Basic("int64"))),
                               Field("subs", Map(Basic("string"),
                                                 Slice(Interface({"M"}))))>>), {}, {"M"})
        [] id = "x/c.F" ->
             TypeDecl("x/c", "F", Struct(<<Field("p", Pointer(Basic("int64")))>>), {}, {"M"})
        [] id = "error" ->
             TypeDecl(NilPkg, "error", Interface({"Error"}), {}, {})]

\* A package-level object: scope.Lookup(name).Type() is type.
Obj(n, t) == [name |-> n, type |-> t]

\* The loaded packages, in the order packages.Load returned them; each scope
\* is listed in the order of scope.Names(), which is sorted.
Packages ==
    << [path |-> "m/a", name |-> "a",
        scope |-> << Obj("A", Named("m/a.A")), Obj("B", Named("m/a.B")),
                     Obj("E", Named("m/a.E")), Obj("Holder", Named("m/a.Holder")),
                     Obj("Iface", Named("m/a.Iface")), Obj("ImplA", Named("m/a.ImplA")),
                     Obj("ImplB", Named("m/a.ImplB")), Obj("Leaf", Named("m/a.Leaf")),
                     Obj("Names", Named("m/a.Names")), Obj("Nop", Named("m/a.Nop")),
                     Obj("Pair", Named("m/a.Pair")),
                     Obj("R", Named("m/a.R")),
                     Obj("S", Named("m/a.S")), Obj("T", Named("m/a.T")),
                     Obj("W", Named("m/a.W")), Obj("Z", Named("m/a.Z")),
                     Obj("count", Basic("int64")),
                     Obj("ext", Named("m/b.Ext")),
                     Obj("fptr", Pointer(Named("m/a.ImplA"))),
                     Obj("fv", Named("x/c.F")) >>],
       [path |-> "m/b", name |-> "b", scope |-> << Obj("Ext", Named("m/b.Ext")) >>],
       [path |-> "x/c", name |-> "c", scope |-> << Obj("F", Named("x/c.F")) >>] >>

\* loaded[0].Module: the module path and its directory.
ModPath == "m"
ModDir == "/src"

PkgPaths == {Packages[i].path : i \in 1..Len(Packages)}
PackageOf(path) == Packages[CHOOSE i \in 1..Len(Packages) : Packages[i].path = path]

(***************************************************************************)
(* Strings.                                                                 *)
(***************************************************************************)
Byte(s, i) == SubSeq(s, i, i)

HasPrefix(s, prefix) ==
    /\ Len(prefix) <= Len(s)
    /\ SubSeq(s, 1, Len(prefix)) = prefix

TrimPrefix(s, prefix) ==
    IF HasPrefix(s, prefix) THEN SubSeq(s, Len(prefix) + 1, Len(s)) ELSE s

\* The greatest index (from 1) of byte c in s, 0 when there is none
\* (Go: the index from 0, or -1).
LastIndexByte(s, c) ==
    LET hits == {i \in 1..Len(s) : Byte(s, i) = c}
    IN  IF hits = {} THEN 0 ELSE CHOOSE i \in hits : \A j \in hits : j <= i

\* The bytes that occur in type names, in ascending byte order.
Alphabet == "./ABCDEFGHIJKLMNOPQRSTUVWXYZabcdefghijklmnopqrstuvwxyz"
Ord(c) == CHOOSE i \in 1..Len(Alphabet) : Byte(Alphabet, i) = c

\* strings.Compare(a, b) < 0, given that a and b agree before byte i
RECURSIVE StrLessFrom(_, _, _)
StrLessFrom(a, b, i) ==
    IF i > Len(b) THEN FALSE
    ELSE IF i > Len(a) THEN TRUE
    ELSE IF Byte(a, i) # Byte(b, i) THEN Ord(Byte(a, i)) < Ord(Byte(b, i))
    ELSE StrLessFrom(a, b, i + 1)

StrLess(a, b) == StrLessFrom(a, b, 1)

\* F applied to the value of v, computed once (a Go local assigned once).
Bind(v, F(_)) == CHOOSE r \in {F(x) : x \in {v}} : TRUE

(***************************************************************************)
(* sizegen.sizes: a types.StdSizes{WordSize, MaxAlign}.                    *)
(***************************************************************************)
VARIABLE sizes      \* sizegen.sizes: the layout of the target, fixed for a run

\* The layouts of the gc compiler for amd64 and for 386.
Layouts == {[WordSize |-> 8, MaxAlign |-> 8], [WordSize |-> 4, MaxAlign |-> 4]}

WordSize == sizes.WordSize
MaxAlign == sizes.MaxAlign

Underlying(t) == IF t.k = "Named" THEN Decl[t.id].underlying ELSE t

BasicSize(b) ==
    CASE b \in {"bool", "int8", "uint8"} -> 1
      [] b \in {"int16", "uint16"} -> 2
      [] b \in {"int32", "uint32", "float32"} -> 4
      [] b \in {"int64", "uint64", "float64"} -> 8
      [] b \in {"int", "uint", "uintptr", "unsafe.Pointer"} -> WordSize
      [] b = "string" -> 2 * WordSize

AlignUp(x, a) == ((x + a - 1) \div a) * a

RECURSIVE Sizeof(_), Alignof(_), StructEnd(_, _), MaxFieldAlign(_, _)
\* The offset just past the first n fields.
StructEnd(fields, n) ==
    IF n = 0 THEN 0
    ELSE Bind(Alignof(fields[n].type),
              LAMBDA a : AlignUp(StructEnd(fields, n - 1), a) + Sizeof(fields[n].type))

MaxFieldAlign(fields, n) ==
    IF n = 0 THEN 1
    ELSE Bind(Alignof(fields[n].type),
              LAMBDA a : Bind(MaxFieldAlign(fields, n - 1),
                              LAMBDA m : IF a > m THEN a ELSE m))

Sizeof(t) ==
    LET u == Underlying(t)
    IN  CASE u.k = "Basic" -> BasicSize(u.b)
          [] u.k = "Array" ->
               IF u.len = 0 THEN 0
               ELSE Bind(Sizeof(u.elem),
                         LAMBDA z : Bind(Alignof(u.elem),
                                         LAMBDA a : AlignUp(z, a) * (u.len - 1) + z))
          [] u.k = "Slice" -> 3 * WordSize
          [] u.k = "Struct" -> StructEnd(u.fields, Len(u.fields))
          [] u.k = "Interface" -> 2 * WordSize
          [] u.k \in {"Pointer", "Map"} -> WordSize

Alignof(t) ==
    LET u == Underlying(t)
        bySize == Bind(Sizeof(u),
                       LAMBDA a : IF a < 1 THEN 1 ELSE IF a > MaxAlign THEN MaxAlign ELSE a)
    IN  CASE u.k = "Array" -> Alignof(u.elem)
          [] u.k = "Struct" -> MaxFieldAlign(u.fields, Len(u.fields))
          [] u.k \in {"Slice", "Interface"} -> WordSize
          [] u.k = "Basic" /\ u.b = "string" -> WordSize
          [] OTHER -> bySize

(***************************************************************************)
(* isPod                                                                    *)
(***************************************************************************)
RECURSIVE isPod(_)
\* Mutant: the default case of the switch answers true.
isPod_DefaultTrue(tt) ==
    CASE tt.k = "Struct" -> \A i \in 1..Len(tt.fields) : isPod(tt.fields[i].type)
      [] tt.k = "Basic" -> tt.b \notin {"string", "unsafe.Pointer"}
      [] OTHER -> TRUE

isPod(tt) ==
    CASE tt.k = "Struct" -> \A i \in 1..Len(tt.fields) : isPod(tt.fields[i].type)
      [] tt.k = "Basic" -> tt.b \notin {"string", "unsafe.Pointer"}
      [] OTHER -> FALSE

(***************************************************************************)
(* The generator's memory: sizegen.known, sizegen.codegen, together with   *)
(* the process log and the way the process died, if it did.  The operators *)
(* below take this record g and return the record after the call.          *)
(*   fault: "none", "stackoverflow" (unbounded recursion: the Go runtime   *)
(*          ends the process), "nilderef" (a method called through a nil   *)
(*          *types.Package), "typeassert" (a failed type assertion).       *)
(***************************************************************************)
NoFault == "none"
Faulted(g, f) == [g EXCEPT !.fault = f]

\* codeFlag bits, as a set of flag names
codeWithInterface == {"interface"}
codeWithUnsafe == {"unsafe"}

DebugTypes == TRUE

\* The nil jen.Code
NoStmt == [s |-> "nil"]

\* Mutant: the lookup makes a new state even when the type has one (the test
\* of line 119 is missing).
getKnownType_Resets(g, named) ==
    IF Decl[named].pkg = NilPkg THEN Faulted(g, "nilderef")
    ELSE LET local == HasPrefix(Decl[named].pkg, ModPath)
             ts == [generated |-> FALSE, local |-> local,
                    pod |-> isPod(Decl[named].underlying)]
         IN  [g EXCEPT !.known = [x \in DOMAIN g.known \cup {named} |->
                                    IF x = named THEN ts ELSE g.known[x]]]

\* Mutant: the arguments of strings.HasPrefix (line 120) are exchanged.
getKnownType_PrefixReversed(g, named) ==
    IF named \in DOMAIN g.known THEN g
    ELSE IF Decl[named].pkg = NilPkg THEN Faulted(g, "nilderef")
    ELSE LET local == HasPrefix(ModPath, Decl[named].pkg)
             ts == [generated |-> FALSE, local |-> local,
                    pod |-> isPod(Decl[named].underlying)]
         IN  [g EXCEPT !.known = g.known @@ (named :> ts)]

getKnownType(g, named) ==
    IF named \in DOMAIN g.known THEN g
    ELSE IF Decl[named].pkg = NilPkg THEN Faulted(g, "nilderef")
    ELSE LET local == HasPrefix(Decl[named].pkg, ModPath)
             ts == [generated |-> FALSE, local |-> local,
                    pod |-> isPod(Decl[named].underlying)]
         IN  [g EXCEPT !.known = g.known @@ (named :> ts)]

bucketCnt == 8
sizeofHmap == 6 * 8

\* Mutant: the charge for the old buckets (line 361) is missing.
sizeStmtForMap_NoOldBuckets(fieldName, m) ==
    LET sizeOfBucket == bucketCnt + bucketCnt * Sizeof(m.key)
                          + bucketCnt * Sizeof(m.elem) + 8
    IN  << [s |-> "AddLit", n |-> sizeofHmap],
           [s |-> "Hmap", f |-> fieldName],
           [s |-> "NumBuckets", offset |-> 9],
           [s |-> "NumOldBuckets", offset |-> 10],
           [s |-> "IfLenOrBuckets", f |-> fieldName,
            body |-> << [s |-> "AddTimes", v |-> "numBuckets", n |-> sizeOfBucket] >>] >>

sizeStmtForMap(fieldName, m) ==
    LET sizeOfBucket == bucketCnt + bucketCnt * Sizeof(m.key)
                          + bucketCnt * Sizeof(m.elem) + 8
    IN  << [s |-> "AddLit", n |-> sizeofHmap],
           [s |-> "Hmap", f |-> fieldName],
           [s |-> "NumBuckets", offset |-> 9],
           [s |-> "NumOldBuckets", offset |-> 10],
           [s |-> "AddTimes", v |-> "numOldBuckets", n |-> sizeOfBucket],
           [s |-> "IfLenOrBuckets", f |-> fieldName,
            body |-> << [s |-> "AddTimes", v |-> "numBuckets", n |-> sizeOfBucket] >>] >>

WalkResult(stmt, flag, g) == [stmt |-> stmt, flag |-> flag, g |-> g]

(***************************************************************************)
(* sizeStmtForType.  path is not a parameter of the Go function: it is the *)
(* set of named types whose underlying form the pending calls are walking. *)
(* The descent below a named type depends on that type alone, so a call    *)
(* that reaches a type already on the path repeats the same calls without  *)
(* end; the model ends it there with the fault "stackoverflow".            *)
(***************************************************************************)
RECURSIVE sizeStmtForType(_, _, _, _, _)
sizeStmtForType(g, fieldName, field, alloc, path) ==
    IF Sizeof(field) = 0 THEN WalkResult(NoStmt, {}, g)
    ELSE
    CASE field.k = "Slice" ->
           LET elemT == field.elem
               elemSize == Sizeof(elemT)
               charge == [s |-> "AddCapTimes", f |-> fieldName, n |-> Sizeof(elemT)]
               loop(stmt) == [s |-> "ForRange", f |-> fieldName, vars |-> <<"_", "elem">>,
                              body |-> <<stmt>>]
           IN  IF elemSize = 0 THEN WalkResult(NoStmt, {}, g)
               ELSE IF elemSize = 1
                    THEN WalkResult([s |-> "AddCap", f |-> fieldName], {}, g)
               ELSE Bind(sizeStmtForType(g, "elem", elemT, FALSE, path),
                         LAMBDA r :
                           WalkResult([s |-> "Block",
                                       body |-> IF r.stmt # NoStmt
                                                THEN <<charge, loop(r.stmt)>>
                                                ELSE <<charge>>],
                                      r.flag, r.g))
      [] field.k = "Map" ->
           LET forLoopVars(keySize, valSize) ==
                   IF keySize # NoStmt /\ valSize # NoStmt THEN <<"k", "v">>
                   ELSE IF valSize # NoStmt THEN <<"_", "v">>
                   ELSE <<"k">>
               loop(keySize, valSize) ==
                   [s |-> "ForRange", f |-> fieldName, vars |-> forLoopVars(keySize, valSize),
                    body |-> (IF keySize # NoStmt THEN <<keySize>> ELSE <<>>)
                             \o (IF valSize # NoStmt THEN <<valSize>> ELSE <<>>)]
           IN  Bind(sizeStmtForType(g, "k", field.key, FALSE, path),
                    LAMBDA rk :
                      IF rk.g.fault # NoFault THEN rk
                      ELSE Bind(sizeStmtForType(rk.g, "v", field.elem, FALSE, path),
                                LAMBDA rv :
                                  WalkResult(
                                    [s |-> "IfNotNil", f |-> fieldName,
                                     body |-> sizeStmtForMap(fieldName, field)
                                              \o (IF rk.stmt = NoStmt /\ rv.stmt = NoStmt
                                                  THEN <<>>
                                                  ELSE <<loop(rk.stmt, rv.stmt)>>)],
                                    codeWithUnsafe \cup rk.flag \cup rv.flag, rv.g)))
      [] field.k = "Pointer" ->
           sizeStmtForType(g, fieldName, field.elem, TRUE, path)
      [] field.k = "Named" ->
           Bind(getKnownType(g, field.id),
                LAMBDA g1 :
               LET ts == g1.known[field.id]
               IN
               IF g1.fault # NoFault THEN WalkResult(NoStmt, {}, g1)
               ELSE IF ts.pod \/ ~ts.local
               THEN IF alloc
                    THEN WalkResult(
                           [s |-> "IfNotNil", f |-> fieldName,
                            body |-> << [s |-> "AddLit",
                                         n |-> Sizeof(Decl[field.id].underlying)] >>],
                           {},
                           IF ~ts.local
                           THEN [g1 EXCEPT !.log = @ \cup
                                   {[msg |-> "WARNING: size of external type cannot be fully calculated",
                                     arg |-> field.id]}]
                           ELSE g1)
                    ELSE WalkResult(NoStmt, {}, g1)
               ELSE IF field.id \in path
               THEN WalkResult(NoStmt, {}, Faulted(g1, "stackoverflow"))
               ELSE sizeStmtForType(g1, fieldName, Decl[field.id].underlying, alloc,
                                    path \cup {field.id}))
      [] field.k = "Interface" ->
           IF field.methods = {} THEN WalkResult(NoStmt, {}, g)
           ELSE WalkResult([s |-> "IfCachedObject", f |-> fieldName,
                            body |-> << [s |-> "AddCachedSize", f |-> "cc", alloc |-> TRUE] >>],
                           codeWithInterface, g)
      [] field.k = "Struct" ->
           WalkResult([s |-> "AddCachedSize", f |-> fieldName, alloc |-> alloc], {}, g)
      [] field.k = "Basic" ->
           IF ~alloc
           THEN IF field.b = "string"
                THEN WalkResult([s |-> "AddLen", f |-> fieldName], {}, g)
                ELSE WalkResult(NoStmt, {}, g)
           ELSE WalkResult([s |-> "AddLit", n |-> Sizeof(field)], {}, g)
      [] OTHER ->
           WalkResult(NoStmt, {},
                      [g EXCEPT !.log = @ \cup {[msg |-> "unhandled type", arg |-> field.k]}])

\* The loop of sizeImplForStruct over the first n fields of st.
RECURSIVE FieldStmts(_, _, _)
FieldStmts(g, st, n) ==
    IF n = 0 THEN [stmt |-> <<>>, flag |-> {}, g |-> g]
    ELSE Bind(FieldStmts(g, st, n - 1),
              LAMBDA before :
                IF before.g.fault # NoFault THEN before
                ELSE Bind(sizeStmtForType(before.g, "cached." \o st.fields[n].name,
                                          st.fields[n].type, FALSE, {}),
                          LAMBDA r :
                            [stmt |-> IF r.stmt # NoStmt
                                      THEN before.stmt
                                           \o (IF DebugTypes
                                               THEN << [s |-> "Comment",
                                                        f |-> st.fields[n].name] >>
                                               ELSE <<>>)
                                           \o <<r.stmt>>
                                      ELSE before.stmt,
                             flag |-> before.flag \cup r.flag,
                             g |-> r.g]))

\* The nil (jen.Code, codeFlag) result
NoImpl == [s |-> "nil"]

\* Mutant: the test of the struct's size (lines 284-286) is missing.
sizeImplForStruct_NoZeroCheck(g, name, st) ==
    Bind(FieldStmts(g, st, Len(st.fields)),
         LAMBDA r :
           [impl |-> [s |-> "Func", recv |-> Decl[name].name, name |-> "CachedSize",
                      body |-> << [s |-> "IfNilReturn", n |-> 0],
                                  [s |-> "SizeInit", n |-> 0],
                                  [s |-> "IfAlloc",
                                   body |-> << [s |-> "AddLit", n |-> Sizeof(st)] >>] >>
                               \o r.stmt
                               \o << [s |-> "ReturnSize"] >>],
            flag |-> r.flag,
            g |-> r.g])

\* Mutant: the size of the struct is added whatever alloc is (the test of
\* line 311 is missing).
sizeImplForStruct_AlwaysCharges(g, name, st) ==
    IF Sizeof(st) = 0 THEN [impl |-> NoImpl, flag |-> {}, g |-> g]
    ELSE Bind(FieldStmts(g, st, Len(st.fields)),
              LAMBDA r :
                [impl |-> [s |-> "Func", recv |-> Decl[name].name, name |-> "CachedSize",
                           body |-> << [s |-> "IfNilReturn", n |-> 0],
                                       [s |-> "SizeInit", n |-> 0],
                                       [s |-> "AddLit", n |-> Sizeof(st)] >>
                                    \o r.stmt
                                    \o << [s |-> "ReturnSize"] >>],
                 flag |-> r.flag,
                 g |-> r.g])

sizeImplForStruct(g, name, st) ==
    IF Sizeof(st) = 0 THEN [impl |-> NoImpl, flag |-> {}, g |-> g]
    ELSE Bind(FieldStmts(g, st, Len(st.fields)),
              LAMBDA r :
                [impl |-> [s |-> "Func", recv |-> Decl[name].name, name |-> "CachedSize",
                           body |-> << [s |-> "IfNilReturn", n |-> 0],
                                       [s |-> "SizeInit", n |-> 0],
                                       [s |-> "IfAlloc",
                                        body |-> << [s |-> "AddLit", n |-> Sizeof(st)] >>] >>
                                    \o r.stmt
                                    \o << [s |-> "ReturnSize"] >>],
                 flag |-> r.flag,
                 g |-> r.g])

(***************************************************************************)
(* findImplementations: the types of the objects of the scope that         *)
(* implement iff, by value or by pointer, in the order of scope.Names().   *)
(***************************************************************************)
MethodSet(t) ==
    CASE t.k = "Named" ->
           IF Decl[t.id].underlying.k = "Interface" THEN Decl[t.id].underlying.methods
           ELSE Decl[t.id].methods
      [] t.k = "Interface" -> t.methods
      [] t.k = "Pointer" /\ t.elem.k = "Named"
           /\ Decl[t.elem.id].underlying.k \notin {"Interface", "Pointer"} ->
           Decl[t.elem.id].methods \cup Decl[t.elem.id].ptrmethods
      [] OTHER -> {}

Implements(t, iff) == iff.methods \subseteq MethodSet(t)

\* Mutant: the pointer form is not tried (the second test of line 171 is
\* missing).
ImplementsEither_ValueOnly(obj, iff) == Implements(obj.type, iff)

ImplementsEither(obj, iff) ==
    Implements(obj.type, iff) \/ Implements(Pointer(obj.type), iff)

RECURSIVE findImplementationsUpTo(_, _, _)
findImplementationsUpTo(scope, iff, n) ==
    IF n = 0 THEN <<>>
    ELSE findImplementationsUpTo(scope, iff, n - 1)
         \o (IF ImplementsEither(scope[n], iff) THEN <<scope[n].type>> ELSE <<>>)

findImplementations(scope, iff) == findImplementationsUpTo(scope, iff, Len(scope))

(***************************************************************************)
(* generateType(pkg, file, named): file is the codeFile the caller holds,  *)
(* named here by its key in sizegen.codegen.                               *)
(***************************************************************************)
codeImpl(code, name, flags) == [code |-> code, name |-> name, flags |-> flags]

RECURSIVE generateType(_, _, _, _), generateImplementations(_, _, _, _, _)
\* Mutant: the test of ts.generated (lines 132-134) is missing.
generateType_NoGuard(g, pkg, file, named) ==
    LET g1 == getKnownType(g, named)
        g2 == [g1 EXCEPT !.known[named].generated = TRUE]
        tt == Decl[named].underlying
    IN  IF g1.fault # NoFault THEN g1
        ELSE CASE tt.k = "Struct" ->
                    Bind(sizeImplForStruct(g2, named, tt),
                         LAMBDA r :
                           IF r.g.fault # NoFault \/ r.impl = NoImpl THEN r.g
                           ELSE [r.g EXCEPT !.codegen[file].impls =
                                   Append(@, codeImpl(r.impl, named, r.flag))])
               [] tt.k = "Interface" ->
                    Bind(findImplementations(PackageOf(pkg).scope, tt),
                         LAMBDA impls :
                           generateImplementations(g2, pkg, file, impls, Len(impls)))
               [] OTHER -> g2

generateType(g, pkg, file, named) ==
    LET g1 == getKnownType(g, named)
        g2 == [g1 EXCEPT !.known[named].generated = TRUE]
        tt == Decl[named].underlying
    IN  IF g1.fault # NoFault THEN g1
        ELSE IF g1.known[named].generated THEN g1
        ELSE CASE tt.k = "Struct" ->
                    Bind(sizeImplForStruct(g2, named, tt),
                         LAMBDA r :
                           IF r.g.fault # NoFault \/ r.impl = NoImpl THEN r.g
                           ELSE [r.g EXCEPT !.codegen[file].impls =
                                   Append(@, codeImpl(r.impl, named, r.flag))])
               [] tt.k = "Interface" ->
                    Bind(findImplementations(PackageOf(pkg).scope, tt),
                         LAMBDA impls :
                           generateImplementations(g2, pkg, file, impls, Len(impls)))
               [] OTHER -> g2

\* The callback of generateType, applied to the first n implementations.
generateImplementations(g, pkg, file, impls, n) ==
    IF n = 0 THEN g
    ELSE Bind(generateImplementations(g, pkg, file, impls, n - 1),
              LAMBDA before :
                IF before.fault # NoFault THEN before
                ELSE IF Underlying(impls[n]).k = "Struct"
                THEN IF impls[n].k = "Named"
                     THEN generateType(before, pkg, file, impls[n].id)
                     ELSE Faulted(before, "typeassert")
                ELSE before)

generateKnownType(g, named) ==
    LET file(path) == [pkg |-> PackageOf(path).name, impls |-> <<>>]
    IN  Bind(Decl[named].pkg,
             LAMBDA path :
               IF path = NilPkg THEN Faulted(g, "nilderef")
               ELSE Bind(IF path \in DOMAIN g.codegen THEN g
                         ELSE [g EXCEPT !.codegen = @ @@ (path :> file(path))],
                         LAMBDA g1 : generateType(g1, path, path, named)))

(***************************************************************************)
(* writeGeneratedCode: the pure parts.                                     *)
(***************************************************************************)
\* sort.Slice(file.impls, less by name): x put into the sorted list at its place
InsertByName(sorted, x) ==
    LET before == {i \in 1..Len(sorted) : ~StrLess(x.name, sorted[i].name)}
        n == Cardinality(before)
    IN  SubSeq(sorted, 1, n) \o <<x>> \o SubSeq(sorted, n + 1, Len(sorted))

RECURSIVE SortFirst(_, _)
SortFirst(impls, n) ==
    IF n = 0 THEN <<>>
    ELSE Bind(SortFirst(impls, n - 1), LAMBDA sorted : InsertByName(sorted, impls[n]))

SortImpls(impls) == SortFirst(impls, Len(impls))

\* path.Clean, for the paths path.Join builds here: a slash that follows a
\* slash is dropped.  CleanFrom is the cleaned form of the bytes from i on.
RECURSIVE CleanFrom(_, _)
CleanFrom(s, i) ==
    IF i > Len(s) THEN ""
    ELSE IF i > 1 /\ Byte(s, i) = "/" /\ Byte(s, i - 1) = "/" THEN CleanFrom(s, i + 1)
    ELSE Byte(s, i) \o CleanFrom(s, i + 1)

CleanPath(s) == CleanFrom(s, 1)

\* path.Join(a, b, c): the non-empty elements joined by slashes, cleaned.
PathJoin(a, b, c) ==
    LET ab == IF a = "" THEN b ELSE IF b = "" THEN a ELSE a \o "/" \o b
        abc == IF ab = "" THEN c ELSE IF c = "" THEN ab ELSE ab \o "/" \o c
    IN  CleanPath(abc)

FullPath(pkg) == PathJoin(ModDir, TrimPrefix(pkg, ModPath), "cached_size.go")

\* Mutant: the break of line 232 is missing.
RenderedFile_NoBreak(file, impls) ==
    [pkg |-> file.pkg,
     header |-> <<"license", "Code generated by Sizegen. DO NOT EDIT.">>,
     cachedObject |-> Cardinality({i \in 1..Len(impls) : "interface" \in impls[i].flags}),
     decls |-> [i \in 1..Len(impls) |->
                  [nocheckptr |-> "unsafe" \in impls[i].flags,
                   name |-> impls[i].name,
                   code |-> impls[i].code]]]

\* The jen.File built from one group, the impls already sorted.
RenderedFile(file, impls) ==
    [pkg |-> file.pkg,
     header |-> <<"license", "Code generated by Sizegen. DO NOT EDIT.">>,
     cachedObject |-> IF \E i \in 1..Len(impls) : "interface" \in impls[i].flags
                      THEN 1 ELSE 0,
     decls |-> [i \in 1..Len(impls) |->
                  [nocheckptr |-> "unsafe" \in impls[i].flags,
                   name |-> impls[i].name,
                   code |-> impls[i].code]]]

(***************************************************************************)
(* The program state.                                                       *)
(***************************************************************************)
VARIABLES
    generate,   \* main: the --gen list
    pc,         \* main: the function the process is in, "exit" or "fatal"
    idx,        \* generateCode: the index of the next entry of generate
    known,      \* sizegen.known
    codegen,    \* sizegen.codegen
    log,        \* what log.Printf has written, as a set of messages
    fault,      \* how the process died, NoFault while it runs
    complete,   \* generateRemainingKnownTypes: complete
    ranging,    \* generateRemainingKnownTypes: inside the range over known
    snapshot,   \* the entries known held when the range began
    wvisited,   \* writeGeneratedCode: the groups the range has produced
    files,      \* the file system: full path -> what the file holds
    sinks,      \* the calls made on fileWriter and on its sinks, in order
    walk,       \* one call of sizeStmtForType on its own: arguments and results
    err         \* the error generateCode or writeGeneratedCode returned

vars == <<generate, pc, idx, known, codegen, log, fault, complete, ranging,
          snapshot, wvisited, files, sinks, err, sizes, walk>>

\* Bound of the model: the length of the --gen list.
MaxGen == 2

\* The --gen arguments tried.
GenInputs ==
    {"m/a.A", "m/a.Leaf", "m/a.Holder", "m/a.Iface", "m/a.W", "m/a.R", "m/a.E",
     "m/a.Z", "x/c.F", "m/a", "m/z.A", "m/a.Nope"}

GenLists == UNION {[1..n -> GenInputs] : n \in 0..MaxGen}

NoErr == "nil"
EmptyMap == [x \in {} |-> x]

\* The record the operators of the generator work on.
G == [known |-> known, codegen |-> codegen, log |-> log, fault |-> NoFault]

\* The state after a call that returned g: a fault ends the process where it is.
Commit(g) ==
    IF g.fault # NoFault
    THEN /\ fault' = g.fault
         /\ UNCHANGED <<known, codegen, log>>
    ELSE /\ known' = g.known
         /\ codegen' = g.codegen
         /\ log' = g.log
         /\ fault' = NoFault

Running(at) == pc = at /\ fault = NoFault

\* No call of the walker on its own is under way.
NoWalk == [field |-> Basic("bool"), alloc |-> FALSE, done |-> FALSE]

Init ==
    /\ sizes = [WordSize |-> 8, MaxAlign |-> 8]
    /\ walk = NoWalk
    /\ generate \in GenLists
    /\ pc = "generateCode"
    /\ idx = 1
    /\ known = EmptyMap
    /\ codegen = EmptyMap
    /\ log = {}
    /\ fault = NoFault
    /\ complete = FALSE
    /\ ranging = FALSE
    /\ snapshot = {}
    /\ wvisited = {}
    /\ files = EmptyMap
    /\ sinks = <<>>
    /\ err = NoErr

(***************************************************************************)
(* generateCode: one turn of the loop over generate.                       *)
(***************************************************************************)
ScopeLookup(scope, typename) ==
    {i \in 1..Len(scope) : scope[i].name = typename}

\* What one --gen entry resolves to: an error, or the object's type.
ResolveGen(gen) ==
    LET pos == LastIndexByte(gen, ".")
        pkgname == SubSeq(gen, 1, pos - 1)
        typename == SubSeq(gen, pos + 1, Len(gen))
        found == ScopeLookup(PackageOf(pkgname).scope, typename)
    IN  IF pos = 0 THEN [err |-> "unexpected input type"]
        ELSE IF pkgname \notin PkgPaths THEN [err |-> "no scope found for type"]
        ELSE IF found = {} THEN [err |-> "no type called found in"]
        ELSE [err |-> NoErr, type |-> PackageOf(pkgname).scope[CHOOSE i \in found : TRUE].type]

\* Mutant: an entry that does not resolve is passed over.
GenerateRoot_SkipsInvalid ==
    /\ Running("generateCode")
    /\ UNCHANGED <<sizes, walk>>
    /\ idx <= Len(generate)
    /\ \E r \in {ResolveGen(generate[idx])} :
           IF r.err # NoErr
           THEN /\ err' = r.err
                /\ idx' = idx + 1
                /\ UNCHANGED <<pc, known, codegen, log, fault>>
           ELSE IF r.type.k # "Named"
           THEN /\ fault' = "typeassert"
                /\ UNCHANGED <<idx, known, codegen, log, pc, err>>
           ELSE /\ \E g \in {generateKnownType(G, r.type.id)} : Commit(g)
                /\ idx' = idx + 1
                /\ UNCHANGED <<pc, err>>
    /\ UNCHANGED <<generate, complete, ranging, snapshot, wvisited, files, sinks>>

GenerateRoot ==
    /\ Running("generateCode")
    /\ UNCHANGED <<sizes, walk>>
    /\ idx <= Len(generate)
    /\ \E r \in {ResolveGen(generate[idx])} :
           IF r.err # NoErr
           THEN /\ err' = r.err
                /\ pc' = "fatal"
                /\ UNCHANGED <<idx, known, codegen, log, fault>>
           ELSE IF r.type.k # "Named"
           THEN /\ fault' = "typeassert"
                /\ UNCHANGED <<idx, known, codegen, log, pc, err>>
           ELSE /\ \E g \in {generateKnownType(G, r.type.id)} : Commit(g)
                /\ idx' = idx + 1
                /\ UNCHANGED <<pc, err>>
    /\ UNCHANGED <<generate, complete, ranging, snapshot, wvisited, files, sinks>>

\* generateCode returns the generator; main calls finalize.
GenerateReturn ==
    /\ Running("generateCode")
    /\ UNCHANGED <<sizes, walk>>
    /\ idx > Len(generate)
    /\ pc' = "generateRemainingKnownTypes"
    /\ UNCHANGED <<generate, idx, known, codegen, log, fault, complete, ranging,
                   snapshot, wvisited, files, sinks, err>>

(***************************************************************************)
(* generateRemainingKnownTypes.  The range over sizegen.known produces     *)
(* every entry the map held when the range began, in any order, and may    *)
(* or may not produce an entry added meanwhile.  An entry that fails the   *)
(* test of line 270 fails it for good (local and pod never change,         *)
(* generated only becomes true) and producing it changes nothing, so the   *)
(* model takes a step only for the entries that pass the test, and the     *)
(* range can end once no entry of the snapshot passes it.                  *)
(***************************************************************************)
\* Mutant: the test of line 270 asks for a POD type instead of a complex one.
Remaining_PodOnly(kn, tt) ==
    LET ts == kn[tt]
        notYetGenerated == ~ts.generated
    IN  ts.local /\ ts.pod /\ notYetGenerated

Remaining(kn, tt) ==
    LET ts == kn[tt]
        isComplex == ~ts.pod
        notYetGenerated == ~ts.generated
    IN  ts.local /\ isComplex /\ notYetGenerated

FixPassStart ==
    /\ Running("generateRemainingKnownTypes")
    /\ UNCHANGED <<sizes, walk>>
    /\ ~ranging
    /\ ~complete
    /\ complete' = TRUE
    /\ ranging' = TRUE
    /\ snapshot' = DOMAIN known
    /\ UNCHANGED <<generate, pc, idx, known, codegen, log, fault, wvisited, files, sinks, err>>

FixVisit ==
    /\ Running("generateRemainingKnownTypes")
    /\ UNCHANGED <<sizes, walk>>
    /\ ranging
    /\ \E tt \in DOMAIN known :
         /\ Remaining(known, tt)
         /\ \E g \in {generateKnownType(G, tt)} : Commit(g)
    /\ complete' = FALSE
    /\ UNCHANGED <<generate, pc, idx, ranging, snapshot, wvisited, files, sinks, err>>

FixPassEnd ==
    /\ Running("generateRemainingKnownTypes")
    /\ UNCHANGED <<sizes, walk>>
    /\ ranging
    /\ \A tt \in snapshot : ~Remaining(known, tt)
    /\ ranging' = FALSE
    /\ UNCHANGED <<generate, pc, idx, known, codegen, log, fault, complete,
                   snapshot, wvisited, files, sinks, err>>

\* Mutant: the loop of line 265 is left without a pass having found nothing to do.
FixReturn_NoFixpoint ==
    /\ Running("generateRemainingKnownTypes")
    /\ UNCHANGED <<sizes, walk>>
    /\ ~ranging
    /\ pc' = "writeGeneratedCode"
    /\ UNCHANGED <<generate, idx, known, codegen, log, fault, complete, ranging,
                   snapshot, wvisited, files, sinks, err>>

FixReturn ==
    /\ Running("generateRemainingKnownTypes")
    /\ UNCHANGED <<sizes, walk>>
    /\ ~ranging
    /\ complete
    /\ pc' = "writeGeneratedCode"
    /\ UNCHANGED <<generate, idx, known, codegen, log, fault, complete, ranging,
                   snapshot, wvisited, files, sinks, err>>

(***************************************************************************)
(* writeGeneratedCode: one turn of the range over code.files.  io is what  *)
(* the file system does in this turn: "ok", or the call that fails.        *)
(***************************************************************************)
IoOutcomes == {"ok", "forFile", "Render", "Close"}

\* What a file holds after Render failed: some part of the text, not known.
Truncated == [truncated |-> TRUE]

SinkCall(call, fullPath, failed) == [call |-> call, path |-> fullPath, failed |-> failed]

\* Mutant: the writer.Close() of line 250 is missing.
SinkCalls_NoCloseOnRenderError(io, fullPath) ==
    CASE io = "forFile" -> << SinkCall("forFile", fullPath, TRUE) >>
      [] io = "Render" -> << SinkCall("forFile", fullPath, FALSE),
                             SinkCall("Render", fullPath, TRUE) >>
      [] io = "Close" -> << SinkCall("forFile", fullPath, FALSE),
                            SinkCall("Render", fullPath, FALSE),
                            SinkCall("Close", fullPath, TRUE) >>
      [] io = "ok" -> << SinkCall("forFile", fullPath, FALSE),
                         SinkCall("Render", fullPath, FALSE),
                         SinkCall("Close", fullPath, FALSE) >>

\* The calls of lines 244-255 for one group.  The result of the Close of
\* line 250 is dropped by the code; it is recorded as not failed.
SinkCalls(io, fullPath) ==
    CASE io = "forFile" -> << SinkCall("forFile", fullPath, TRUE) >>
      [] io = "Render" -> << SinkCall("forFile", fullPath, FALSE),
                             SinkCall("Render", fullPath, TRUE),
                             SinkCall("Close", fullPath, FALSE) >>
      [] io = "Close" -> << SinkCall("forFile", fullPath, FALSE),
                            SinkCall("Render", fullPath, FALSE),
                            SinkCall("Close", fullPath, TRUE) >>
      [] io = "ok" -> << SinkCall("forFile", fullPath, FALSE),
                         SinkCall("Render", fullPath, FALSE),
                         SinkCall("Close", fullPath, FALSE) >>

\* The error of the return statements of lines 246, 251 and 254.
WriteError(io) ==
    CASE io = "forFile" -> "forFile"
      [] io = "Render" -> "failed to save"
      [] io = "Close" -> "Close"
      [] io = "ok" -> NoErr

\* Mutant: a failed Render does not end the function.
ReturnsAt_RenderGoesOn(io) == io \in {"forFile", "Close"}

\* The turns that end in a return statement.
ReturnsAt(io) == WriteError(io) # NoErr

WriteGroup ==
    /\ Running("writeGeneratedCode")
    /\ UNCHANGED <<sizes, walk>>
    /\ \E pkg \in DOMAIN codegen \ wvisited :
       \E sorted \in {SortImpls(codegen[pkg].impls)} :
         LET file == codegen[pkg]
             fullPath == FullPath(pkg)
         IN  /\ wvisited' = wvisited \cup {pkg}
             /\ IF Len(file.impls) = 0
                THEN UNCHANGED <<codegen, log, files, sinks, err, pc>>
                ELSE IF ~HasPrefix(pkg, ModPath)
                THEN /\ log' = log \cup {[msg |-> "failed to generate code for foreign package",
                                          arg |-> pkg]}
                     /\ UNCHANGED <<codegen, files, sinks, err, pc>>
                ELSE /\ codegen' = [codegen EXCEPT ![pkg].impls = sorted]
                     /\ \E io \in IoOutcomes :
                          /\ sinks' = sinks \o SinkCalls(io, fullPath)
                          /\ files' =
                               IF io = "forFile" THEN files
                               ELSE [p \in DOMAIN files \cup {fullPath} |->
                                       IF p = fullPath
                                       THEN [content |-> IF io = "Render" THEN Truncated
                                                         ELSE RenderedFile(file, sorted),
                                             open |-> FALSE]
                                       ELSE files[p]]
                          /\ err' = WriteError(io)
                          /\ pc' = IF ReturnsAt(io) THEN "exit" ELSE pc
                          /\ log' = IF io = "ok"
                                    THEN log \cup {[msg |-> "saved", arg |-> fullPath]}
                                    ELSE log
    /\ UNCHANGED <<generate, idx, known, fault, complete, ranging, snapshot>>

\* The range is over: writeGeneratedCode returns nil, finalize and main return.
WriteReturn ==
    /\ Running("writeGeneratedCode")
    /\ UNCHANGED <<sizes, walk>>
    /\ wvisited = DOMAIN codegen
    /\ pc' = "exit"
    /\ UNCHANGED <<generate, idx, known, codegen, log, fault, complete, ranging,
                   snapshot, wvisited, files, sinks, err>>

Next ==
    \/ GenerateRoot
    \/ GenerateReturn
    \/ FixPassStart
    \/ FixVisit
    \/ FixPassEnd
    \/ FixReturn
    \/ WriteGroup
    \/ WriteReturn

Spec == Init /\ [][Next]_vars

\* main runs to its end: every step that can be taken is taken.
FairSpec == Spec /\ WF_vars(Next)

(***************************************************************************)
(* sizeStmtForType on its own: one call with the field type and the flag   *)
(* alloc drawn from the sets below, on an empty registry, under either     *)
(* layout.  The field is cached.f of some struct being generated.          *)
(***************************************************************************)
\* The types a field is built from.
WalkLeaves ==
    {Basic("int64"), Basic("string"), Basic("uint8"),
     Named("m/a.Leaf"), Named("m/a.Pair"), Named("m/a.B"), Named("x/c.F"),
     Named("m/a.Names"), Named("m/a.Iface"),
     Interface({}), Interface({"M"}),
     Struct(<<Field("q", Pointer(Basic("int32")))>>),
     Array(4, Basic("int32"))}

\* The types that can be the key of a map.
WalkKeys == {Basic("int64"), Basic("string"), Named("m/a.Leaf")}

WalkTypes ==
    WalkLeaves
    \cup {Pointer(t) : t \in WalkLeaves}
    \cup {Slice(t) : t \in WalkLeaves}
    \cup {Map(key, t) : key \in WalkKeys, t \in WalkLeaves}
    \cup {Pointer(Pointer(Basic("int64"))), Pointer(Slice(Basic("int64"))),
          Pointer(Map(Basic("int64"), Basic("int64"))), Pointer(Basic("string"))}

WalkInit ==
    /\ sizes \in Layouts
    /\ walk \in {[field |-> f, alloc |-> a, done |-> FALSE] : f \in WalkTypes, a \in BOOLEAN}
    /\ generate = <<>>
    /\ pc = "sizeStmtForType"
    /\ idx = 1
    /\ known = EmptyMap
    /\ codegen = EmptyMap
    /\ log = {}
    /\ fault = NoFault
    /\ complete = FALSE
    /\ ranging = FALSE
    /\ snapshot = {}
    /\ wvisited = {}
    /\ files = EmptyMap
    /\ sinks = <<>>
    /\ err = NoErr

WalkStep ==
    /\ Running("sizeStmtForType")
    /\ ~walk.done
    /\ \E r \in {sizeStmtForType(G, "cached.f", walk.field, walk.alloc, {})} :
         /\ Commit(r.g)
         /\ walk' = [field |-> walk.field, alloc |-> walk.alloc, done |-> TRUE,
                     stmt |-> r.stmt, flag |-> r.flag]
    /\ UNCHANGED <<generate, pc, idx, complete, ranging, snapshot, wvisited, files,
                   sinks, err, sizes>>

WalkNext == WalkStep

WalkSpec == WalkInit /\ [][WalkNext]_vars

(***************************************************************************)
(* What the properties speak of.                                           *)
(***************************************************************************)
\* The places of the code collection: <<group key, index in impls>>.
EntryPlaces ==
    UNION {{<<p, i>> : i \in 1..Len(codegen[p].impls)} : p \in DOMAIN codegen}

EntryAt(e) == codegen[e[1]].impls[e[2]]

\* The entries of named type t.
Emitted(t) == {e \in EntryPlaces : EntryAt(e).name = t}

\* generateRemainingKnownTypes has returned.
FixpointReturned == pc \in {"writeGeneratedCode", "exit"}

\* The output phase wrote every group it had to and reported no error.
OutputComplete == pc = "exit" /\ err = NoErr

\* The methods the files on disk hold.
InOutput(t) ==
    \E p \in DOMAIN files :
        /\ files[p].content # Truncated
        /\ \E i \in DOMAIN files[p].content.decls : files[p].content.decls[i].name = t

\* The named types the walker looks up while it walks the fields of t.
EmptyG == [known |-> EmptyMap, codegen |-> EmptyMap, log |-> {}, fault |-> NoFault]
WalkedFrom(t) ==
    DOMAIN FieldStmts(EmptyG, Decl[t].underlying, Len(Decl[t].underlying.fields)).g.known

WalkReached == UNION {WalkedFrom(EntryAt(e).name) : e \in EntryPlaces}

\* The named types the --gen list asks for.
RootTypes ==
    {ResolveGen(generate[i]).type.id :
        i \in {j \in 1..Len(generate) : ResolveGen(generate[j]).err = NoErr}}

(***************************************************************************)
(* C1.  No type whose registry state has pod = true has an entry in the    *)
(* code collection; a run whose only root is the POD struct Leaf leaves    *)
(* every group empty and writes no file.                                   *)
(***************************************************************************)
C1_PodNeverEmitted ==
    /\ \A e \in EntryPlaces : ~known[EntryAt(e).name].pod
    /\ generate = <<"m/a.Leaf">> =>
         /\ \A p \in DOMAIN codegen : codegen[p].impls = <<>>
         /\ files = EmptyMap

(***************************************************************************)
(* C2.  The field walker terminates on every type graph: it never          *)
(* descends into the same named type without bound, so the process never   *)
(* dies of a stack overflow.                                               *)
(***************************************************************************)
C2_WalkerTerminates == fault # "stackoverflow"

(***************************************************************************)
(* C3.  Claim as stated: once the fixpoint has returned, every locally     *)
(* owned, non-POD named type that the field walk of an emitted method      *)
(* reached has a method entry in the code collection.                      *)
(***************************************************************************)
C3_ReachedTypesEmitted ==
    FixpointReturned =>
        \A t \in WalkReached :
            (known[t].local /\ ~known[t].pod) => Emitted(t) # {}

(***************************************************************************)
(* C3, amended.  Once the fixpoint has returned, every locally owned,      *)
(* non-POD named type with a struct as underlying form that the field walk *)
(* of an emitted method reached has a method entry in the code collection. *)
(***************************************************************************)
C3_ReachedStructsEmitted ==
    FixpointReturned =>
        \A t \in WalkReached :
            (known[t].local /\ ~known[t].pod /\ Decl[t].underlying.k = "Struct")
                => Emitted(t) # {}

\* B is reached only by the walk of A's fields, and the run has its method.
C3_Witness ==
    /\ generate = <<"m/a.A">>
    /\ FixpointReturned
    /\ "m/a.B" \in WalkReached
    /\ Emitted("m/a.B") # {}

(***************************************************************************)
(* C4.  In every reachable state each named type has at most one entry in  *)
(* the whole code collection, counted across all groups.                   *)
(***************************************************************************)
C4_AtMostOneEntry ==
    \A t \in DOMAIN Decl : Cardinality(Emitted(t)) <= 1

\* F is asked for as a root and then found again as an implementation of
\* Iface, which writes into another group: it still has one entry.
C4_Witness ==
    /\ generate = <<"x/c.F", "m/a.Iface">>
    /\ pc = "exit"
    /\ Cardinality(Emitted("x/c.F")) = 1
    /\ known["m/a.Iface"].generated

(***************************************************************************)
(* C5.  Every entry of the code collection is for a type whose registry    *)
(* state has local = true.                                                 *)
(***************************************************************************)
C5_OnlyLocalEmitted ==
    \A e \in EntryPlaces : known[EntryAt(e).name].local

(***************************************************************************)
(* C6.  The files a run writes are a function of the --gen list alone:     *)
(* whatever order the two ranges over Go maps take, a run that completes   *)
(* its output leaves the files of the run that always takes the first      *)
(* remaining registry entry.                                               *)
(***************************************************************************)
RECURSIVE ReferenceGenerate(_, _), ReferenceFixpoint(_)
ReferenceGenerate(g, n) ==
    IF n = 0 THEN g
    ELSE Bind(ReferenceGenerate(g, n - 1),
              LAMBDA before :
                IF before.fault # NoFault \/ ResolveGen(generate[n]).err # NoErr
                THEN before
                ELSE generateKnownType(before, ResolveGen(generate[n]).type.id))

ReferenceFixpoint(g) ==
    LET remaining == {t \in DOMAIN g.known : Remaining(g.known, t)}
    IN  IF g.fault # NoFault \/ remaining = {} THEN g
        ELSE Bind(generateKnownType(g, CHOOSE t \in remaining : TRUE),
                  LAMBDA after : ReferenceFixpoint(after))

ReferenceFiles ==
    Bind(ReferenceFixpoint(ReferenceGenerate(EmptyG, Len(generate))),
         LAMBDA g :
           LET written == {p \in DOMAIN g.codegen :
                             Len(g.codegen[p].impls) > 0 /\ HasPrefix(p, ModPath)}
           IN  {[path |-> FullPath(p),
                 content |-> RenderedFile(g.codegen[p], SortImpls(g.codegen[p].impls))] :
                  p \in written})

C6_OutputIndependentOfOrder ==
    OutputComplete =>
        {[path |-> p, content |-> files[p].content] : p \in DOMAIN files} = ReferenceFiles

(***************************************************************************)
(* C7.  When the output is complete, every root that is locally owned and  *)
(* non-POD has a method in the files, and every root that is POD or        *)
(* foreign has none, the foreign ones with a warning in the log.  Stated   *)
(* for the roots a method can be written for: structs of non-zero size.    *)
(***************************************************************************)
C7_RootsInOutput ==
    OutputComplete =>
        \A t \in RootTypes :
            (Decl[t].underlying.k = "Struct" /\ Sizeof(Named(t)) > 0) =>
                /\ (known[t].local /\ ~known[t].pod) => InOutput(t)
                /\ (known[t].pod \/ ~known[t].local) => ~InOutput(t)
                /\ ~known[t].local =>
                     \E m \in log : m.msg = "failed to generate code for foreign package"

(***************************************************************************)
(* C8.  Every entry of the code collection is in the group keyed by the    *)
(* path of the package that declares the entry's type.                     *)
(***************************************************************************)
C8_EntryInDeclaringGroup ==
    \A e \in EntryPlaces : e[1] = Decl[EntryAt(e).name].pkg

(***************************************************************************)
(* C9.  A and B are locally owned structs that point to each other.  A run *)
(* with the single root A comes to its end, and the code collection then   *)
(* holds exactly one method for A and exactly one for B.                   *)
(***************************************************************************)
C9_CycleTerminates ==
    (generate = <<"m/a.A">>) ~>
        (/\ pc = "exit"
         /\ fault = NoFault
         /\ Cardinality(Emitted("m/a.A")) = 1
         /\ Cardinality(Emitted("m/a.B")) = 1)

\* The run with root A at its end: B was first met unemitted by the walk of A,
\* and A was met again, already emitted, by the walk of B.
C9_Witness ==
    /\ generate = <<"m/a.A">>
    /\ pc = "exit"
    /\ "m/a.A" \in WalkedFrom("m/a.B")
    /\ "m/a.B" \in WalkedFrom("m/a.A")
    /\ Cardinality(Emitted("m/a.A")) = 1
    /\ Cardinality(Emitted("m/a.B")) = 1

(***************************************************************************)
(* C10.  generateRemainingKnownTypes always returns, and when it has       *)
(* returned no registry entry is local, non-POD and not generated.         *)
(***************************************************************************)
C10_FixpointTerminatesQuiescent ==
    /\ pc = "generateRemainingKnownTypes" => fault = NoFault
    /\ FixpointReturned => \A t \in DOMAIN known : ~Remaining(known, t)

\* The --gen entries that do not resolve to a type of a loaded package.
InvalidEntries == {i \in 1..Len(generate) : ResolveGen(generate[i]).err # NoErr}

FirstInvalid == CHOOSE i \in InvalidEntries : \A j \in InvalidEntries : i <= j

(***************************************************************************)
(* C11.  If an entry of the --gen list is invalid, the loop of generateCode *)
(* never goes past the first such entry: meeting it, generateCode returns  *)
(* that entry's error and main ends the run.  The run never enters the     *)
(* fixpoint or the output phase, no call is made on the file writer and no *)
(* file is written, whatever roots were processed before.                  *)
(***************************************************************************)
C11_InvalidGenAborts ==
    InvalidEntries # {} =>
        /\ pc \in {"generateCode", "fatal"}
        /\ idx <= FirstInvalid
        /\ pc = "fatal" => /\ idx = FirstInvalid
                           /\ err = ResolveGen(generate[FirstInvalid]).err
        /\ pc = "generateCode" => err = NoErr
        /\ sinks = <<>>
        /\ files = EmptyMap
        /\ wvisited = {}

\* The valid root A was processed, then the unknown type name ended the run.
C11_Witness ==
    /\ generate = <<"m/a.A", "m/a.Nope">>
    /\ pc = "fatal"
    /\ err = "no type called found in"
    /\ Emitted("m/a.A") # {}
    /\ files = EmptyMap

\* The groups writeGeneratedCode has to write: not empty, inside the module.
GroupsToWrite ==
    {p \in DOMAIN codegen : Len(codegen[p].impls) > 0 /\ HasPrefix(p, ModPath)}

\* forFile was called for the file of group p.
SinkOpenedFor(p) ==
    \E i \in 1..Len(sinks) : sinks[i].call = "forFile" /\ sinks[i].path = FullPath(p)

(***************************************************************************)
(* C12.  When the Close of one group's sink has failed and the run is      *)
(* over, the writer has still called forFile for every other group that is *)
(* not empty and inside the module.                                        *)
(***************************************************************************)
C12_CloseErrorBestEffort ==
    (pc = "exit" /\ \E i \in 1..Len(sinks) : sinks[i].call = "Close" /\ sinks[i].failed)
        => \A p \in GroupsToWrite : SinkOpenedFor(p)

\* The groups whose file was rendered and closed without an error.
GroupsWritten ==
    {p \in DOMAIN codegen :
        /\ SinkCall("Render", FullPath(p), FALSE) \in {sinks[i] : i \in 1..Len(sinks)}
        /\ SinkCall("Close", FullPath(p), FALSE) \in {sinks[i] : i \in 1..Len(sinks)}}

(***************************************************************************)
(* C13.  When forFile or Render has failed for one group, writeGeneratedCode *)
(* has returned that error: the failing call is the last one but for the   *)
(* Close of the failed sink, no call was made for a group the range had    *)
(* not produced yet and no such group has a file, and every group written  *)
(* before holds its complete file.                                         *)
(***************************************************************************)
C13_OpenOrRenderErrorStops ==
    err \in {"forFile", "failed to save"} =>
        /\ pc = "exit"
        /\ err = "forFile" =>
             (sinks[Len(sinks)].call = "forFile" /\ sinks[Len(sinks)].failed)
        /\ err = "failed to save" =>
             /\ sinks[Len(sinks) - 1].call = "Render" /\ sinks[Len(sinks) - 1].failed
             /\ sinks[Len(sinks)].call = "Close"
        /\ Cardinality({i \in 1..Len(sinks) : sinks[i].failed}) = 1
        /\ \A p \in DOMAIN codegen \ wvisited :
             ~SinkOpenedFor(p) /\ FullPath(p) \notin DOMAIN files
        /\ \A p \in GroupsWritten :
             /\ FullPath(p) \in DOMAIN files
             /\ files[FullPath(p)].content = RenderedFile(codegen[p], codegen[p].impls)

\* Render failed for the first of two groups: the other one is left alone.
C13_Witness ==
    /\ err = "failed to save"
    /\ pc = "exit"
    /\ GroupsToWrite \ wvisited # {}
    /\ \E p \in DOMAIN files : files[p].content = Truncated

\* Among the first n calls: the sinks forFile handed out, and the Close calls.
SinksObtained(n) == {i \in 1..n : sinks[i].call = "forFile" /\ ~sinks[i].failed}
SinksClosed(n) == {i \in 1..n : sinks[i].call = "Close"}

(***************************************************************************)
(* C14.  Every sink forFile has handed out is closed exactly once, by a    *)
(* Close that comes after the forFile and before writeGeneratedCode goes   *)
(* on to another group or returns; no sink is closed that was not handed   *)
(* out; and after any number of calls at most one sink is open.            *)
(***************************************************************************)
C14_SinkClosedOnce ==
    /\ \A i \in SinksObtained(Len(sinks)) :
         Cardinality({j \in SinksClosed(Len(sinks)) :
                        j > i /\ sinks[j].path = sinks[i].path}) = 1
    /\ Cardinality(SinksObtained(Len(sinks))) = Cardinality(SinksClosed(Len(sinks)))
    /\ \A n \in 0..Len(sinks) :
         LET open == Cardinality(SinksObtained(n)) - Cardinality(SinksClosed(n))
         IN  open \in {0, 1}

\* One group was written and closed, then Render failed for the next one,
\* whose sink was closed on the error path.
C14_Witness ==
    /\ pc = "exit"
    /\ Len(sinks) = 6
    /\ sinks[3].call = "Close"
    /\ sinks[5].call = "Render" /\ sinks[5].failed
    /\ sinks[6].call = "Close" /\ sinks[6].path = sinks[4].path
    /\ sinks[4].path # sinks[1].path

\* The exit status of the process once it is over: 2 after a runtime panic,
\* 1 after log.Fatal, 0 when main returns.  finalize drops the error of
\* writeGeneratedCode (line 188), so err does not enter into it.
ExitStatus ==
    CASE fault # NoFault -> 2
      [] pc = "fatal" -> 1
      [] OTHER -> 0

\* The run is over.
Ended == pc \in {"exit", "fatal"} \/ fault # NoFault

(***************************************************************************)
(* C15.  A run whose output phase returned an error does not end as a      *)
(* success: its exit status is not 0, or the error is in the log.          *)
(***************************************************************************)
C15_OutputErrorSurfaced ==
    (Ended /\ err \in {"forFile", "failed to save", "Close"}) =>
        \/ ExitStatus # 0
        \/ \E m \in log : m.msg = err

\* The statement, or a statement nested in its blocks, is the type assertion
\* to cachedObject that the interface case of sizeStmtForType writes.
RECURSIVE HasDowncast(_)
HasDowncast(stmt) ==
    \/ stmt.s = "IfCachedObject"
    \/ /\ "body" \in DOMAIN stmt
       /\ \E i \in 1..Len(stmt.body) : HasDowncast(stmt.body[i])

(***************************************************************************)
(* C16.  A method's flags hold codeWithInterface exactly when its body     *)
(* contains a type assertion to cachedObject, at whatever depth; and a     *)
(* written file declares cachedObject once when one of its methods         *)
(* contains such an assertion, and not at all otherwise.                   *)
(***************************************************************************)
C16_CachedObjectDeclared ==
    /\ \A e \in EntryPlaces :
         ("interface" \in EntryAt(e).flags) <=> HasDowncast(EntryAt(e).code)
    /\ \A p \in DOMAIN files :
         files[p].content # Truncated =>
           LET decls == files[p].content.decls
           IN  files[p].content.cachedObject =
                 IF \E i \in DOMAIN decls : HasDowncast(decls[i].code) THEN 1 ELSE 0

\* The file of m/a holds two methods with the assertion, the one of Holder
\* (a field of interface type) and the one of Ext (an interface inside a
\* slice inside a map), and a method without it.
C16_Witness ==
    /\ pc = "exit"
    /\ "/src/a/cached_size.go" \in DOMAIN files
    /\ files["/src/a/cached_size.go"].content # Truncated
    /\ LET decls == files["/src/a/cached_size.go"].content.decls
       IN  /\ \E i \in DOMAIN decls : decls[i].name = "m/a.Holder" /\ HasDowncast(decls[i].code)
           /\ \E i \in DOMAIN decls : decls[i].name = "m/b.Ext" /\ HasDowncast(decls[i].code)
           /\ \E i \in DOMAIN decls : ~HasDowncast(decls[i].code)
    /\ files["/src/a/cached_size.go"].content.cachedObject = 1

(***************************************************************************)
(* C17.  Claim as stated: the local flag of a registry entry is true       *)
(* exactly when the path of the package that declares the type is a prefix *)
(* of the module path.                                                     *)
(***************************************************************************)
C17_LocalIffPkgPrefixOfModule ==
    \A t \in DOMAIN known :
        known[t].local <=>
            (/\ Len(Decl[t].pkg) <= Len(ModPath)
             /\ SubSeq(ModPath, 1, Len(Decl[t].pkg)) = Decl[t].pkg)

(***************************************************************************)
(* C17, amended.  The local flag of a registry entry is true exactly when  *)
(* the module path is a prefix of the path of the package that declares    *)
(* the type: the package path begins with the bytes of the module path.    *)
(***************************************************************************)
C17_LocalIffModulePrefixOfPkg ==
    \A t \in DOMAIN known :
        known[t].local <=>
            (/\ Len(ModPath) <= Len(Decl[t].pkg)
             /\ SubSeq(Decl[t].pkg, 1, Len(ModPath)) = ModPath)

\* The registry holds W of package m/a, Ext of m/b (local) and F of x/c (foreign).
C17_Witness ==
    /\ {"m/a.W", "m/b.Ext", "x/c.F"} \subseteq DOMAIN known
    /\ known["m/a.W"].local
    /\ known["m/b.Ext"].local
    /\ ~known["x/c.F"].local

(***************************************************************************)
(* C18.  In every step the registry keeps every entry it has, with the     *)
(* same local and pod values, and an entry whose generated flag is true    *)
(* keeps it true: a lookup of a type that has an entry changes nothing.    *)
(***************************************************************************)
C18_RegistryStable ==
    [][\A t \in DOMAIN known :
          /\ t \in DOMAIN known'
          /\ known'[t].local = known[t].local
          /\ known'[t].pod = known[t].pod
          /\ known[t].generated => known'[t].generated]_vars

\* B got its entry, not generated, from the walk of A; the fixpoint then
\* generated it, and its walk looked up A, which had an entry and kept it.
C18_Witness ==
    /\ generate = <<"m/a.A">>
    /\ pc = "exit"
    /\ DOMAIN known = {"m/a.A", "m/a.B"}
    /\ known["m/a.A"].generated
    /\ known["m/a.B"].generated
    /\ "m/a.A" \in WalkedFrom("m/a.B")

(***************************************************************************)
(* C19.  The lookup of a named type never ends the run: no process dies of *)
(* a nil dereference in getKnownType, whatever named type a field has,     *)
(* the predeclared ones without a package included.                        *)
(***************************************************************************)
C19_LookupTotal == fault # "nilderef"

\* The structure of tt holds no pointer, slice, map, string, unsafe pointer
\* or interface, named types looked through to their underlying form.
RECURSIVE TransitivelyPod(_)
TransitivelyPod(tt) ==
    CASE tt.k = "Basic" -> tt.b \notin {"string", "unsafe.Pointer"}
      [] tt.k = "Struct" -> \A i \in 1..Len(tt.fields) : TransitivelyPod(tt.fields[i].type)
      [] tt.k = "Array" -> TransitivelyPod(tt.elem)
      [] tt.k = "Named" -> TransitivelyPod(Decl[tt.id].underlying)
      [] OTHER -> FALSE

(***************************************************************************)
(* C20.  The pod flag of a registry entry is true exactly when the         *)
(* structure of the type holds no pointer, slice, map, string, unsafe      *)
(* pointer or interface: a struct whose fields are primitives or named     *)
(* types with a POD underlying form is POD.                                *)
(***************************************************************************)
C20_PodIffNoIndirection ==
    \A t \in DOMAIN known : known[t].pod <=> TransitivelyPod(Decl[t].underlying)

\* The statements the walker gives for the first n fields of struct st, each
\* walked as cached.<name> with alloc = false, in the order of declaration.
RECURSIVE WalkerStmts(_, _)
WalkerStmts(st, n) ==
    IF n = 0 THEN <<>>
    ELSE Bind(sizeStmtForType(EmptyG, "cached." \o st.fields[n].name,
                              st.fields[n].type, FALSE, {}),
              LAMBDA r : WalkerStmts(st, n - 1)
                         \o (IF r.stmt = NoStmt THEN <<>> ELSE <<r.stmt>>))

NotComment(stmt) == stmt.s # "Comment"

(***************************************************************************)
(* C21.  Every method in the code collection is for a struct of size > 0   *)
(* and has this body: return 0 for a nil receiver; size := 0; if alloc,    *)
(* add the size of the struct; then, comments apart, the walker's          *)
(* statements for the fields in declaration order, each made with          *)
(* alloc = false; return size.  A generated struct of size 0 has no        *)
(* method, and a generated struct of size > 0 has one.                     *)
(***************************************************************************)
C21_MethodForm ==
    /\ \A e \in EntryPlaces :
         LET t == EntryAt(e).name
             st == Decl[t].underlying
             code == EntryAt(e).code
             n == Len(code.body)
         IN  /\ st.k = "Struct"
             /\ Sizeof(st) > 0
             /\ code.recv = Decl[t].name
             /\ n >= 4
             /\ code.body[1] = [s |-> "IfNilReturn", n |-> 0]
             /\ code.body[2] = [s |-> "SizeInit", n |-> 0]
             /\ code.body[3] = [s |-> "IfAlloc",
                                body |-> << [s |-> "AddLit", n |-> Sizeof(st)] >>]
             /\ code.body[n] = [s |-> "ReturnSize"]
             /\ SelectSeq(SubSeq(code.body, 4, n - 1), NotComment)
                  = WalkerStmts(st, Len(st.fields))
    /\ \A t \in DOMAIN known :
         (known[t].generated /\ Decl[t].underlying.k = "Struct" /\ fault = NoFault)
             => (Emitted(t) # {} <=> Sizeof(Decl[t].underlying) > 0)

\* W, with five fields of five kinds, has its method; Z, of size 0, was
\* generated and has none.
C21_Witness ==
    /\ generate = <<"m/a.W", "m/a.Z">>
    /\ pc = "exit"
    /\ Emitted("m/a.W") # {}
    /\ known["m/a.Z"].generated
    /\ Emitted("m/a.Z") = {}

\* The call of the walker on its own has returned a statement.
Walked == walk.done /\ fault = NoFault

\* The statement adds n, the size of what a pointer points to, when the
\* pointer is not nil: by a literal, or by a call of CachedSize with
\* alloc = true, whose body adds the size of the struct (lines 311-313).
ChargesAllocation(stmt, n) ==
    \/ stmt = [s |-> "AddLit", n |-> n]
    \/ /\ stmt.s = "IfNotNil"
       /\ stmt.body = << [s |-> "AddLit", n |-> n] >>
    \/ /\ stmt.s = "AddCachedSize"
       /\ stmt.alloc

(***************************************************************************)
(* C22.  For a field of pointer type *T with T of size > 0, of whatever    *)
(* kind, the walker's statement charges the allocation of the pointee: it  *)
(* adds the size of T when the pointer is not nil.                         *)
(***************************************************************************)
C22_PointerChargesPointee ==
    (Walked /\ walk.field.k = "Pointer" /\ Sizeof(walk.field.elem) > 0)
        => ChargesAllocation(walk.stmt, Sizeof(walk.field.elem))

(***************************************************************************)
(* C23.  For a field of a named type N that is POD (no pointer, slice,     *)
(* map, string or interface anywhere in it) or foreign, the walker gives,  *)
(* with alloc = true, exactly a non-nil guard around a charge of the size  *)
(* of N's underlying form, and with alloc = false no statement; for a      *)
(* locally owned non-POD N it gives the statement of N's underlying form   *)
(* walked with the same alloc.                                             *)
(***************************************************************************)
C23_NamedRule ==
    (Walked /\ walk.field.k = "Named" /\ Sizeof(walk.field) > 0) =>
        LET N == walk.field.id
            under == Decl[N].underlying
        IN  IF TransitivelyPod(walk.field) \/ ~HasPrefix(Decl[N].pkg, ModPath)
            THEN walk.stmt = IF walk.alloc
                             THEN [s |-> "IfNotNil", f |-> "cached.f",
                                   body |-> << [s |-> "AddLit", n |-> Sizeof(under)] >>]
                             ELSE NoStmt
            ELSE walk.stmt = sizeStmtForType(EmptyG, "cached.f", under, walk.alloc, {N}).stmt

\* The statement the walker gives for tt walked as name with alloc = false,
\* from an empty registry.
WalkOf(name, tt) == sizeStmtForType(EmptyG, name, tt, FALSE, {}).stmt

\* The statements of body that are of kind s.
OfKind(body, s) == {i \in 1..Len(body) : body[i].s = s}

\* The statement for a map field is one non-nil guard whose body has one
\* charge of a literal, the header, and charges the buckets.
MapGuardShape(stmt) ==
    /\ stmt.s = "IfNotNil"
    /\ stmt.f = "cached.f"
    /\ OfKind(stmt.body, "AddLit") = {1}
    /\ OfKind(stmt.body, "AddTimes") \cup OfKind(stmt.body, "IfLenOrBuckets") # {}
    /\ Cardinality(OfKind(stmt.body, "ForRange")) <= 1
    /\ OfKind(stmt.body, "ForRange") \subseteq {Len(stmt.body)}

(***************************************************************************)
(* C24 as stated.  The statement for a map field is one non-nil guard with *)
(* one header charge and the bucket charge, followed by a loop over the    *)
(* entries exactly when isPod is false of the key type or of the value     *)
(* type.                                                                   *)
(***************************************************************************)
C24_LoopIffNonPod ==
    (Walked /\ walk.field.k = "Map") =>
        /\ MapGuardShape(walk.stmt)
        /\ OfKind(walk.stmt.body, "ForRange") # {}
             <=> (~isPod(walk.field.key) \/ ~isPod(walk.field.elem))

(***************************************************************************)
(* C24 amended.  The statement for a map field is one non-nil guard with:  *)
(* the header charge, the two probes of the live header, the charge for    *)
(* the old buckets, the charge for the buckets under the test              *)
(* len > 0 || numBuckets > 1; and then a loop over the entries exactly     *)
(* when the walker gives a statement for the key type walked as k or for   *)
(* the value type walked as v with alloc = false.  The loop names k and v  *)
(* as far as they have a statement and its body is those statements, the   *)
(* key's first.                                                            *)
(***************************************************************************)
C24_LoopIffWalkerYields ==
    (Walked /\ walk.field.k = "Map") =>
        LET body == walk.stmt.body
            keySize == WalkOf("k", walk.field.key)
            valSize == WalkOf("v", walk.field.elem)
            inner == (IF keySize # NoStmt THEN <<keySize>> ELSE <<>>)
                     \o (IF valSize # NoStmt THEN <<valSize>> ELSE <<>>)
        IN  /\ MapGuardShape(walk.stmt)
            /\ Len(body) = IF inner = <<>> THEN 6 ELSE 7
            /\ body[1] = [s |-> "AddLit", n |-> sizeofHmap]
            /\ body[2] = [s |-> "Hmap", f |-> "cached.f"]
            /\ body[3].s = "NumBuckets"
            /\ body[4].s = "NumOldBuckets"
            /\ body[5].s = "AddTimes" /\ body[5].v = "numOldBuckets"
            /\ body[6].s = "IfLenOrBuckets"
            /\ Len(body[6].body) = 1
            /\ body[6].body[1].s = "AddTimes" /\ body[6].body[1].v = "numBuckets"
            /\ body[6].body[1].n = body[5].n
            /\ inner # <<>> =>
                 /\ body[7].s = "ForRange"
                 /\ body[7].f = "cached.f"
                 /\ body[7].body = inner
                 /\ body[7].vars = IF keySize # NoStmt /\ valSize # NoStmt THEN <<"k", "v">>
                                   ELSE IF valSize # NoStmt THEN <<"_", "v">>
                                   ELSE <<"k">>

\* A map from string to a named interface has been walked: the loop is there,
\* with the statement of the key and the statement of the value.
C24_Witness ==
    /\ Walked
    /\ walk.field = Map(Basic("string"), Named("m/a.Iface"))
    /\ Len(walk.stmt.body) = 7
    /\ Len(walk.stmt.body[7].body) = 2

(***************************************************************************)
(* What the statements of sizeStmtForMap add to size when they run on a    *)
(* live map m: len is len(m), B the byte the generated code reads at       *)
(* offset 9 of the header and old the uint16 it reads at offset 10.        *)
(***************************************************************************)
MaxProbe == 1
MapValues == [len : 0..MaxProbe, B : 0..MaxProbe, old : 0..MaxProbe]

numBuckets(m) == 2 ^ m.B
numOldBuckets(m) == m.old

RECURSIVE MapStmtsAdd(_, _, _)
MapStmtsAdd(body, n, m) ==
    IF n = 0 THEN 0
    ELSE MapStmtsAdd(body, n - 1, m)
         + (CASE body[n].s = "AddLit" -> body[n].n
              [] body[n].s = "AddTimes" ->
                   (IF body[n].v = "numBuckets" THEN numBuckets(m) ELSE numOldBuckets(m))
                   * body[n].n
              [] body[n].s = "IfLenOrBuckets" ->
                   IF m.len > 0 \/ numBuckets(m) > 1
                   THEN MapStmtsAdd(body[n].body, Len(body[n].body), m)
                   ELSE 0
              [] OTHER -> 0)

(***************************************************************************)
(* C25.  On the layout with 8-byte words, for every map that is not nil,   *)
(* whatever its length and its number of buckets, the statement for a map  *)
(* field adds the size of the map header, 48, and                          *)
(* (buckets + old buckets) * (8 + 8 * sizeof(K) + 8 * sizeof(V) + 8),      *)
(* the loop over the entries apart.                                        *)
(***************************************************************************)
C25_MapChargeAlways ==
    (Walked /\ walk.field.k = "Map" /\ sizes.WordSize = 8) =>
        \A m \in MapValues :
            MapStmtsAdd(walk.stmt.body, 6, m)
              = 48 + (numBuckets(m) + numOldBuckets(m))
                     * (8 + 8 * Sizeof(walk.field.key) + 8 * Sizeof(walk.field.elem) + 8)

\* The size of a pointer on the layout of the run.
PointerSize == Sizeof(Pointer(Basic("uint8")))

\* The size of the runtime's map header on the layout of the run: an int,
\* eight bytes of flags, B, noverflow and hash0, and four words for buckets,
\* oldbuckets, nevacuate and extra.
MapHeaderSize == Sizeof(Basic("int")) + 8 + 4 * PointerSize

(***************************************************************************)
(* C26.  On every layout the statement for a map field takes its sizes     *)
(* from the layout: the header charge is the layout's map-header size and  *)
(* the two bucket charges multiply by                                      *)
(* 8 + 8 * sizeof(K) + 8 * sizeof(V) + the layout's pointer size.          *)
(***************************************************************************)
C26_MapSizesFromLayout ==
    (Walked /\ walk.field.k = "Map") =>
        LET body == walk.stmt.body
            bucket == 8 + 8 * Sizeof(walk.field.key) + 8 * Sizeof(walk.field.elem)
                        + PointerSize
        IN  /\ body[1] = [s |-> "AddLit", n |-> MapHeaderSize]
            /\ body[5].n = bucket
            /\ body[6].body[1].n = bucket

(***************************************************************************)
(* What a generated method returns (lines 308-318), its statements run in  *)
(* order from the n-th on: alloc is the argument, recvNil says the         *)
(* receiver is nil, and each is what every statement made for a field adds *)
(* on the value at hand.                                                   *)
(***************************************************************************)
RECURSIVE MethodReturns(_, _, _, _, _, _)
MethodReturns(body, n, size, alloc, recvNil, each) ==
    IF n > Len(body) THEN size
    ELSE CASE body[n].s = "IfNilReturn" ->
                IF recvNil THEN body[n].n
                ELSE MethodReturns(body, n + 1, size, alloc, recvNil, each)
           [] body[n].s = "SizeInit" ->
                MethodReturns(body, n + 1, body[n].n, alloc, recvNil, each)
           [] body[n].s = "IfAlloc" ->
                MethodReturns(body, n + 1,
                              IF alloc THEN size + body[n].body[1].n ELSE size,
                              alloc, recvNil, each)
           [] body[n].s = "AddLit" ->
                MethodReturns(body, n + 1, size + body[n].n, alloc, recvNil, each)
           [] body[n].s = "Comment" ->
                MethodReturns(body, n + 1, size, alloc, recvNil, each)
           [] body[n].s = "ReturnSize" -> size
           [] OTHER ->
                MethodReturns(body, n + 1, size + each, alloc, recvNil, each)

CachedSizeOf(body, alloc, recvNil, each) == MethodReturns(body, 1, 0, alloc, recvNil, each)

\* The named type id is a struct of size > 0 of the module for which the
\* registry has pod = false.
LocalNonPodStruct(id) ==
    /\ Decl[id].underlying.k = "Struct"
    /\ Sizeof(Decl[id].underlying) > 0
    /\ HasPrefix(Decl[id].pkg, ModPath)
    /\ ~isPod(Decl[id].underlying)

(***************************************************************************)
(* C27.  For a field of type *S, S a struct of the module that is not POD, *)
(* the walker's statement is size += f.CachedSize(true), and the method of *)
(* S with true returns 0 on a nil pointer and otherwise sizeof(S) more     *)
(* than it returns with false.  For a field of type S held by value the    *)
(* statement is size += f.CachedSize(false).                               *)
(***************************************************************************)
C27_PointerDelegation ==
    /\ (Walked /\ walk.field.k = "Pointer" /\ walk.field.elem.k = "Named"
               /\ LocalNonPodStruct(walk.field.elem.id)) =>
          LET S == walk.field.elem.id
              body == sizeImplForStruct(EmptyG, S, Decl[S].underlying).impl.body
          IN  /\ walk.stmt = [s |-> "AddCachedSize", f |-> "cached.f", alloc |-> TRUE]
              /\ \A each \in 0..MaxProbe :
                   /\ CachedSizeOf(body, TRUE, TRUE, each) = 0
                   /\ CachedSizeOf(body, TRUE, FALSE, each)
                        = Sizeof(Decl[S].underlying) + CachedSizeOf(body, FALSE, FALSE, each)
    /\ (Walked /\ walk.field.k = "Named" /\ LocalNonPodStruct(walk.field.id)
               /\ ~walk.alloc) =>
          walk.stmt = [s |-> "AddCachedSize", f |-> "cached.f", alloc |-> FALSE]

\* A field of type *B has been walked, B a struct with a pointer and a string.
C27_Witness ==
    /\ Walked
    /\ walk.field = Pointer(Named("m/a.B"))
    /\ walk.stmt.s = "AddCachedSize"
    /\ walk.stmt.alloc

\* The fields of root struct r whose type is a named interface of the module
\* with at least one method.
InterfaceFields(r) ==
    {i \in 1..Len(Decl[r].underlying.fields) :
        LET ft == Decl[r].underlying.fields[i].type
        IN  /\ ft.k = "Named"
            /\ Decl[ft.id].underlying.k = "Interface"
            /\ Decl[ft.id].underlying.methods # {}
            /\ HasPrefix(Decl[ft.id].pkg, ModPath)}

\* The struct types declared in the package of interface I whose value form
\* or pointer form has the methods of I.
StructsImplementing(I) ==
    {t \in DOMAIN Decl :
        /\ Decl[t].pkg = Decl[I].pkg
        /\ Decl[t].underlying.k = "Struct"
        /\ \/ Implements(Named(t), Decl[I].underlying)
           \/ Implements(Pointer(Named(t)), Decl[I].underlying)}

\* The roots of the run that are structs of size > 0.
StructRoots ==
    {r \in RootTypes : Decl[r].underlying.k = "Struct" /\ Sizeof(Decl[r].underlying) > 0}

\* The method of r has the type assertion on field i, and the file of r's
\* package, once written whole, declares cachedObject once.
DowncastAndDeclaration(r, i) ==
    /\ \E e \in Emitted(r) : \E k \in 1..Len(EntryAt(e).code.body) :
         /\ EntryAt(e).code.body[k].s = "IfCachedObject"
         /\ EntryAt(e).code.body[k].f = "cached." \o Decl[r].underlying.fields[i].name
    /\ \A e \in Emitted(r) :
         (OutputComplete /\ FullPath(e[1]) \in DOMAIN files
                         /\ files[FullPath(e[1])].content # Truncated)
             => files[FullPath(e[1])].content.cachedObject = 1

(***************************************************************************)
(* C28 as stated.  When a root struct has a field of a named interface     *)
(* type of the module with at least one method then, the fixpoint once     *)
(* returned, every struct type declared in the interface's package whose   *)
(* value form or pointer form satisfies the interface has a method, the    *)
(* root's method has the type assertion to cachedObject on that field, and *)
(* the file declares cachedObject exactly once.                            *)
(***************************************************************************)
C28_EveryImplementationEmitted ==
    FixpointReturned =>
        \A r \in StructRoots : \A i \in InterfaceFields(r) :
            /\ \A t \in StructsImplementing(Decl[r].underlying.fields[i].type.id) :
                 Emitted(t) # {}
            /\ DowncastAndDeclaration(r, i)

(***************************************************************************)
(* C28 amended.  The same, for the implementing struct types of size > 0:  *)
(* an implementing struct of size 0 has no method.                         *)
(***************************************************************************)
C28_SizedImplementationsEmitted ==
    FixpointReturned =>
        \A r \in StructRoots : \A i \in InterfaceFields(r) :
            /\ \A t \in StructsImplementing(Decl[r].underlying.fields[i].type.id) :
                 Emitted(t) # {} <=> Sizeof(Decl[t].underlying) > 0
            /\ DowncastAndDeclaration(r, i)

\* The run with root Holder has ended: ImplA, which satisfies Iface by its
\* pointer form, and ImplB, by its value form, have their methods; Nop, of
\* size 0, has none; the file of m/a declares cachedObject once.
C28_Witness ==
    /\ generate = <<"m/a.Holder">>
    /\ OutputComplete
    /\ Emitted("m/a.ImplA") # {}
    /\ Emitted("m/a.ImplB") # {}
    /\ Emitted("m/a.Nop") = {}
    /\ "/src/a/cached_size.go" \in DOMAIN files
    /\ files["/src/a/cached_size.go"].content # Truncated
    /\ files["/src/a/cached_size.go"].content.cachedObject = 1

\* The type whose method the call f.CachedSize(..) names when f has type tt:
\* tt itself, or what tt points to.
Receiver(tt) == IF tt.k = "Pointer" THEN tt.elem ELSE tt

\* The fields of struct st for which statement stmt was made.
FieldsOf(st, stmt) ==
    {i \in 1..Len(st.fields) : stmt.f = "cached." \o st.fields[i].name}

(***************************************************************************)
(* C29.  The fixpoint once returned, every statement                       *)
(* size += cached.<field>.CachedSize(..) of a method in the code           *)
(* collection is a call on a named type that has a method in the code      *)
(* collection too, whatever the type of the field, an unnamed struct       *)
(* included.                                                               *)
(***************************************************************************)
C29_DelegationsResolved ==
    FixpointReturned =>
        \A e \in EntryPlaces :
            LET st == Decl[EntryAt(e).name].underlying
                body == EntryAt(e).code.body
            IN  \A k \in 1..Len(body) :
                  body[k].s = "AddCachedSize" =>
                    \A i \in FieldsOf(st, body[k]) :
                      LET recv == Receiver(st.fields[i].type)
                      IN  /\ recv.k = "Named"
                          /\ Emitted(recv.id) # {}

(***************************************************************************)
(* What a statement of the walker adds to size when the pointer it was     *)
(* made for is nil: nothing under a test for nil, nothing by a call of     *)
(* CachedSize, whose method returns 0 on a nil receiver (line 309),        *)
(* nothing by a failed type assertion, by len or cap or by a loop; a       *)
(* literal is added as it stands.                                          *)
(***************************************************************************)
RECURSIVE AddsOnNil(_), BodyAddsOnNil(_, _)
AddsOnNil(stmt) ==
    CASE stmt.s = "AddLit" -> stmt.n
      [] stmt.s = "Block" -> BodyAddsOnNil(stmt.body, Len(stmt.body))
      [] OTHER -> 0

BodyAddsOnNil(body, n) ==
    IF n = 0 THEN 0 ELSE BodyAddsOnNil(body, n - 1) + AddsOnNil(body[n])

(***************************************************************************)
(* C30.  Every statement the walker makes for what a pointer points to     *)
(* (alloc = true) adds 0 when the pointer is nil: so for a pointer to a    *)
(* named type, to a struct, and to an unnamed primitive such as *int64 or  *)
(* *string.                                                                *)
(***************************************************************************)
C30_NilPointerAddsNothing ==
    (Walked /\ (walk.field.k = "Pointer" \/ walk.alloc)) => AddsOnNil(walk.stmt) = 0

=============================================================================
